---- MODULE Spec2Model ----
(***************************************************************************)
(* Model of the markdown-it mention plugin (src/src/plugin.ts):            *)
(* parseMention walks the children of every inline block and replaces the  *)
(* text tokens outside link contexts by the result of splitTokens;         *)
(* renderMention renders a mention token and records its handle in         *)
(* env.mentions.                                                           *)
(*                                                                         *)
(* Strings are sequences of one-character strings.  Offsets into a string  *)
(* are 0-based, as in the source (match.index, pos).                       *)
(***************************************************************************)
EXTENDS Integers, Sequences, FiniteSets, TLC

\* An optional value (string | null | undefined): NULL, or Some(v).
NULL == <<>>
Some(v) == <<v>>
Value(o) == o[1]

(***************************************************************************)
(* Bounds of the model.                                                    *)
(***************************************************************************)
\* block tokens plus child tokens of one document
MaxTokens == 4
\* pieces a text token's content is assembled from
MaxPieces == 2

(***************************************************************************)
(* MENTION_PATTERN, plugin.ts:99-100                                       *)
(*   /@[\p{L}\p{N}._-]+(@(?:[\p{L}\p{N}][\p{L}\p{N}_-]*\.)+[\p{L}\p{N}]{2,})?/giu *)
(* over an alphabet with representatives of each character class.          *)
(***************************************************************************)
\* [\p{L}\p{N}]
LetterOrNumber == {"a", "b"}
\* [\p{L}\p{N}._-]
HandleChar == LetterOrNumber \cup {".", "_", "-"}
\* [\p{L}\p{N}_-]
LabelChar == LetterOrNumber \cup {"_", "-"}

\* 0-based character access, s.charAt(i)
At(s, i) == s[i + 1]

\* s.substring(from, to)
Substring(s, from, to) == SubSeq(s, from + 1, to)

\* The offset after the longest run of characters of class cls starting at
\* offset i (a greedy cls* ).
RunEnd(s, i, cls) ==
  CHOOSE j \in i..Len(s) :
    /\ \A k \in i..(j - 1) : At(s, k) \in cls
    /\ (j = Len(s) \/ At(s, j) \notin cls)

\* One iteration of (?:[\p{L}\p{N}][\p{L}\p{N}_-]*\.) at offset p: the offset
\* after the label's dot, or -1 when no label starts at p.
LabelEnd(s, p) ==
  IF p < Len(s) /\ At(s, p) \in LetterOrNumber
  THEN LET e == RunEnd(s, p + 1, LabelChar)
       IN  IF e < Len(s) /\ At(s, e) = "." THEN e + 1 ELSE -1
  ELSE -1

\* [\p{L}\p{N}]{2,} at offset p: the offset after the run, or -1.
TopLevelEnd(s, p) ==
  LET e == RunEnd(s, p, LetterOrNumber)
  IN  IF e - p >= 2 THEN e ELSE -1

\* (?:label)+ top-level at offset p, with n labels already matched: the
\* greedy + takes one more label when it can and gives it back when the rest
\* then fails.
RECURSIVE DomainEnd(_, _, _)
DomainEnd(s, p, n) ==
  LET q    == LabelEnd(s, p)
      more == IF q = -1 THEN -1 ELSE DomainEnd(s, q, n + 1)
  IN  IF more # -1 THEN more
      ELSE IF n >= 1 THEN TopLevelEnd(s, p)
      ELSE -1

\* The optional group (@domain) at offset p: the offset after it, or -1 when
\* the group does not take part in the match (match[1] is undefined).
GroupEnd(s, p) ==
  IF p < Len(s) /\ At(s, p) = "@" THEN DomainEnd(s, p + 1, 0) ELSE -1

NoMatch == [index |-> -1, text |-> <<>>, group |-> NULL]

\* The match of MENTION_PATTERN starting exactly at offset i, or NoMatch.
\* group is match[1]: the "@domain" part, or NULL.
MatchAt(s, i) ==
  IF i < Len(s) /\ At(s, i) = "@"
  THEN LET h == RunEnd(s, i + 1, HandleChar)
       IN  IF h = i + 1 THEN NoMatch
           ELSE LET g == GroupEnd(s, h)
                IN  IF g = -1
                    THEN [index |-> i, text |-> Substring(s, i, h), group |-> NULL]
                    ELSE [index |-> i, text |-> Substring(s, i, g),
                          group |-> Some(Substring(s, h, g))]
  ELSE NoMatch

\* content.matchAll(MENTION_PATTERN) from offset i on: the non-overlapping
\* matches, leftmost first.
RECURSIVE MatchAll(_, _)
MatchAll(s, i) ==
  IF i >= Len(s) THEN <<>>
  ELSE LET m == MatchAt(s, i)
       IN  IF m.index = -1 THEN MatchAll(s, i + 1)
           ELSE <<m>> \o MatchAll(s, i + Len(m.text))

(***************************************************************************)
(* Tokens.  id is the identity of the token object: the host's tokens have *)
(* distinct positive ids, a token built by new state.Token(...) is a fresh *)
(* object (id 0).  attrs is the ordered list of <<name, value>> pairs.     *)
(***************************************************************************)
NewToken(type) ==
  [type |-> type, content |-> <<>>, level |-> 0, attrs |-> <<>>,
   info |-> <<>>, id |-> 0]

\* (mutant) token.level = level is left out
TextToken_LevelLeftOut(content, level) ==
  [NewToken("text") EXCEPT !.content = content]

\* const token = new state.Token("text", "", 0); token.content = ...;
\* token.level = level
TextToken(content, level) ==
  [NewToken("text") EXCEPT !.content = content, !.level = level]

(***************************************************************************)
(* PluginOptions, plugin.ts:13-54: which of the four resolvers the caller  *)
(* configured.  What a configured resolver answers for one match is the    *)
(* caller's business: an answer record holds the value each resolver       *)
(* returns if it is invoked for that match.                                *)
(***************************************************************************)
PluginOptions ==
  [localDomain : BOOLEAN, link : BOOLEAN, linkAttributes : BOOLEAN,
   label : BOOLEAN]

\* `acct:${handle}`
AcctUri(handle) == <<"a", "c", "c", "t", ":">> \o handle

\* The part of a handle between its first "@" and its second "@" (or its end).
LocalPart(handle) ==
  LET rest == Substring(handle, 1, Len(handle))
      e    == RunEnd(rest, 0, HandleChar)
  IN  Substring(rest, 0, e)

\* toBareHandle of label.ts: "@" and the local part, each in a span of its own.
toBareHandle(handle) ==
  <<"<span class=at>", "@", "</span>", "<span class=user>">>
    \o LocalPart(handle) \o <<"</span>">>

\* (mutant) the property is always added as a new last entry
SetProperty_Appending(attrs, key, value) == Append(attrs, <<key, value>>)

\* attrs[key] = value on a JavaScript object, as Object.entries sees it: an
\* existing property keeps its place and takes the new value, a new property
\* goes last.
SetProperty(attrs, key, value) ==
  IF \E i \in 1..Len(attrs) : attrs[i][1] = key
  THEN [i \in 1..Len(attrs) |->
          IF attrs[i][1] = key THEN <<key, value>> ELSE attrs[i]]
  ELSE Append(attrs, <<key, value>>)

(***************************************************************************)
(* splitTokens, plugin.ts:102-159.  The loop over the matches is           *)
(* SplitLoop; its state is pos, the tokens pushed so far, and (for the     *)
(* properties) covers, the source span [from, to) each pushed token stands *)
(* for, and calls, the resolver invocations made.                          *)
(***************************************************************************)
\* (mutant) a bare handle without a local domain is kept as it is
CompleteHandle_KeepingBare(match, opts, answer) ==
  IF match.group = NULL /\ opts.localDomain /\ answer.localDomain # NULL
  THEN Some(match.text \o <<"@">> \o Value(answer.localDomain))
  ELSE Some(match.text)

\* lines 113-120: the completed handle, or NULL when the match is skipped.
CompleteHandle(match, opts, answer) ==
  IF match.group = NULL
  THEN LET localDomain == IF opts.localDomain THEN answer.localDomain ELSE NULL
       IN  IF localDomain = NULL THEN NULL
           ELSE Some(match.text \o <<"@">> \o Value(localDomain))
  ELSE Some(match.text)

\* line 129: options?.link?.(handle, state.env)
LinkHref(opts, answer) == IF opts.link THEN answer.link ELSE NULL

\* (mutant) the test for a configured link resolver is left out
IsRejected_WithoutResolver(href, opts) == href = NULL

\* line 130: href == null && options?.link != null
IsRejected(href, opts) == href = NULL /\ opts.link

\* lines 139-146: the mention token
MentionToken(handle, href, level, opts, answer) ==
  LET attrs == IF opts.linkAttributes THEN answer.linkAttributes ELSE <<>>
  IN  [NewToken("mention") EXCEPT
         !.content = IF opts.label THEN answer.label ELSE toBareHandle(handle),
         !.level = level,
         !.attrs = SetProperty(attrs, "href",
                               IF href # NULL THEN Value(href)
                               ELSE AcctUri(handle)),
         !.info = handle]

\* lines 135 and 148: pos = match.index + match[0].length
PosAfter(match) == match.index + Len(match.text)

\* (mutant) pos moves past a skipped match
PosAfterSkipped_Advancing(pos, match) == match.index + Len(match.text)

\* line 118: continue, pos is left alone
PosAfterSkipped(pos, match) == pos

\* lines 122-127: the text between pos and the match
TextBefore(content, level, pos, match) ==
  IF match.index > pos
  THEN <<TextToken(Substring(content, pos, match.index), level)>>
  ELSE <<>>

\* (mutant) the text after the last match is pushed even when it is empty
TextAfter_EvenIfEmpty(content, level, pos) ==
  <<[NewToken("text") EXCEPT
       !.content = Substring(content, pos, Len(content)), !.level = level]>>

\* lines 151-156: the text after the last match
TextAfter(content, level, pos) ==
  IF pos < Len(content)
  THEN <<TextToken(Substring(content, pos, Len(content)), level)>>
  ELSE <<>>

Span(from, to) == [from |-> from, to |-> to]

Call(fn, arg, k) == [fn |-> fn, arg |-> arg, match |-> k]

\* the resolver invocations of one iteration, in the order of the code
CallsFor(match, handle, rejected, opts, k) ==
  (IF match.group = NULL /\ opts.localDomain
     THEN <<Call("localDomain", match.text, k)>> ELSE <<>>)
  \o (IF handle # NULL /\ opts.link
        THEN <<Call("link", Value(handle), k)>> ELSE <<>>)
  \o (IF handle # NULL /\ ~rejected /\ opts.label
        THEN <<Call("label", Value(handle), k)>> ELSE <<>>)
  \o (IF handle # NULL /\ ~rejected /\ opts.linkAttributes
        THEN <<Call("linkAttributes", Value(handle), k)>> ELSE <<>>)

RECURSIVE SplitLoop(_, _, _, _, _, _, _, _)
SplitLoop(content, level, matches, k, opts, answers, pos, acc) ==
  IF k > Len(matches)
  THEN LET after == TextAfter(content, level, pos)
       IN  [tokens |-> acc.tokens \o after,
            covers |-> acc.covers \o
                         (IF after = <<>> THEN <<>>
                          ELSE <<Span(pos, Len(content))>>),
            calls  |-> acc.calls]
  ELSE
    LET match    == matches[k]
        answer   == answers[k]
        handle   == CompleteHandle(match, opts, answer)
        href     == LinkHref(opts, answer)
        rejected == handle # NULL /\ IsRejected(href, opts)
        calls    == acc.calls \o CallsFor(match, handle, rejected, opts, k)
        before   == TextBefore(content, level, pos, match)
        coverB   == IF before = <<>> THEN <<>>
                    ELSE <<Span(pos, match.index)>>
        coverM   == <<Span(match.index, match.index + Len(match.text))>>
    IN  IF handle = NULL
        THEN SplitLoop(content, level, matches, k + 1, opts, answers,
                       PosAfterSkipped(pos, match),
                       [acc EXCEPT !.calls = calls])
        ELSE IF rejected
        THEN SplitLoop(content, level, matches, k + 1, opts, answers,
                       PosAfter(match),
                       [tokens |-> acc.tokens \o before
                                     \o <<TextToken(match.text, level)>>,
                        covers |-> acc.covers \o coverB \o coverM,
                        calls  |-> calls])
        ELSE SplitLoop(content, level, matches, k + 1, opts, answers,
                       PosAfter(match),
                       [tokens |-> acc.tokens \o before
                                     \o <<MentionToken(Value(handle), href,
                                                       level,
                                                       opts, answer)>>,
                        covers |-> acc.covers \o coverB \o coverM,
                        calls  |-> calls])

splitTokens(token, opts, answers) ==
  SplitLoop(token.content, token.level, MatchAll(token.content, 0), 1,
            opts, answers, 0,
            [tokens |-> <<>>, covers |-> <<>>, calls |-> <<>>])

(***************************************************************************)
(* isLinkOpen and isLinkClose of html.ts: an anchor start tag and an       *)
(* anchor end tag, whatever the letter case and the attributes.            *)
(***************************************************************************)
isLinkOpen(html) ==
  /\ Len(html) >= 3
  /\ html[1] = "<"
  /\ html[2] \in {"a", "A"}
  /\ html[3] \in {">", " "}

isLinkClose(html) ==
  /\ Len(html) >= 4
  /\ html[1] = "<"
  /\ html[2] = "/"
  /\ html[3] \in {"a", "A"}
  /\ html[4] \in {">", " "}

(***************************************************************************)
(* The callback of flatMap in parseMention, plugin.ts:77-95.               *)
(***************************************************************************)
\* lines 78-81
LinkDepthAfter(linkDepth, token) ==
  IF token.type = "link_open" THEN linkDepth + 1
  ELSE IF token.type = "link_close" THEN linkDepth - 1
  ELSE linkDepth

\* lines 82-88
HtmlLinkDepthAfter(htmlLinkDepth, token) ==
  IF token.type = "html_inline"
  THEN IF isLinkOpen(token.content) THEN htmlLinkDepth + 1
       ELSE IF isLinkClose(token.content) THEN htmlLinkDepth - 1
       ELSE htmlLinkDepth
  ELSE htmlLinkDepth

\* (mutant) the markdown link counter is not consulted
PassedThrough_WithoutLinkDepth(linkDepth, htmlLinkDepth, token) ==
  htmlLinkDepth > 0 \/ token.type # "text"

\* lines 89-93: the token is returned as it is
PassedThrough(linkDepth, htmlLinkDepth, token) ==
  linkDepth > 0 \/ htmlLinkDepth > 0 \/ token.type # "text"

\* lines 75-76: the counters a block's traversal starts with
DepthsAtBlockStart(linkDepth, htmlLinkDepth) == <<0, 0>>

ParseChild(linkDepth, htmlLinkDepth, token, opts, answers) ==
  LET ld    == LinkDepthAfter(linkDepth, token)
      hd    == HtmlLinkDepthAfter(htmlLinkDepth, token)
      split == splitTokens(token, opts, answers)
  IN  [linkDepth     |-> ld,
       htmlLinkDepth |-> hd,
       scanned       |-> ~PassedThrough(ld, hd, token),
       tokens        |-> IF PassedThrough(ld, hd, token) THEN <<token>>
                         ELSE split.tokens,
       split         |-> IF PassedThrough(ld, hd, token) THEN NULL
                         ELSE Some([token |-> token, answers |-> answers,
                                    matches |-> MatchAll(token.content, 0),
                                    result |-> split])]

\* Array.prototype.flat: the replacement sequences in order
RECURSIVE Flatten(_)
Flatten(seqs) ==
  IF seqs = <<>> THEN <<>> ELSE Head(seqs) \o Flatten(Tail(seqs))

(***************************************************************************)
(* renderMention, plugin.ts:161-179, on an environment                     *)
(*   [isObject, hasMentions, mentions].                                    *)
(***************************************************************************)
\* (mutant) the list is created anew on every call
RecordMention_NewList(env, info) ==
  IF env.isObject
  THEN [env EXCEPT !.hasMentions = TRUE, !.mentions = <<info>>]
  ELSE env

\* lines 172-177
RecordMention(env, info) ==
  IF env.isObject
  THEN [env EXCEPT !.hasMentions = TRUE,
                   !.mentions = Append(IF env.hasMentions THEN env.mentions
                                       ELSE <<>>, info)]
  ELSE env

Rendered(tag, attrs, body) == [tag |-> tag, attrs |-> attrs, body |-> body]

renderMention(tokens, idx, env) ==
  IF Len(tokens) <= idx
  THEN [env |-> env, html |-> Rendered("", <<>>, <<>>)]
  ELSE LET token == tokens[idx + 1]
       IN  IF token.type # "mention"
           THEN [env |-> env, html |-> Rendered("renderToken", <<>>, <<>>)]
           ELSE [env  |-> RecordMention(env, token.info),
                 html |-> Rendered("a", token.attrs, token.content)]

(***************************************************************************)
(* Inputs: what the host and the caller hand to the plugin.                *)
(***************************************************************************)
\* Contents of text tokens are assembled from these pieces; the pattern is
\* matched against the assembled characters.
Pieces ==
  { <<" ">>, <<".">>, <<"@">>, <<"@", "a">>, <<"@", "a", " ">>,
    <<"@", "a", "@", "b", "-", ".", "a", "b">> }

RECURSIVE Assembled(_)
Assembled(n) ==
  IF n = 0 THEN {<<>>}
  ELSE Assembled(n - 1) \cup {c \o p : c \in Assembled(n - 1), p \in Pieces}

\* the text tokens of a document: <<content, level>>
DocTexts ==
  { << <<"@", "a", "@", "b", "-", ".", "a", "b">>, 0 >>,
    << <<" ", "@", "a">>, 1 >> }

\* raw inline markup
HtmlInlines ==
  { <<"<", "A", " ", "h", "=", ">">>, <<"<", "/", "a", ">">>,
    <<"<", "b", ">">> }

HostToken(type, content, level, id) ==
  [NewToken(type) EXCEPT !.content = content, !.level = level, !.id = id]

ChildTokens(id) ==
  {HostToken(t, <<>>, 0, id) : t \in {"link_open", "link_close"}}
  \cup {HostToken("html_inline", h, 0, id) : h \in HtmlInlines}
  \cup {HostToken("text", t[1], t[2], id) : t \in DocTexts}

\* what the resolvers may answer
LocalDomains == {NULL, Some(<<"b", ".", "a">>)}
Links == {NULL, Some(<<"u", "/">>)}
LinkAttributes ==
  { << <<"class", <<"m">> >> >>,
    << <<"href", <<"h">> >>, <<"class", <<"m">> >> >> }
Labels == {<<"L">>}

\* The answers of the resolvers for one match, those of a resolver that is
\* not invoked for the match left at NULL / empty.
Answers(opts, match) ==
  { a \in [localDomain : LocalDomains, link : Links,
           linkAttributes : LinkAttributes \cup {<<>>},
           label : Labels \cup {<<>>}] :
      LET asked     == match.group = NULL /\ opts.localDomain
          completed == match.group # NULL \/ (asked /\ a.localDomain # NULL)
          converted == completed /\ ~(opts.link /\ a.link = NULL)
      IN  /\ ~asked => a.localDomain = NULL
          /\ ~(completed /\ opts.link) => a.link = NULL
          /\ (converted /\ opts.linkAttributes) <=> a.linkAttributes # <<>>
          /\ (converted /\ opts.label) <=> a.label # <<>> }

RECURSIVE AnswerSeqs(_, _, _)
AnswerSeqs(opts, matches, k) ==
  IF k > Len(matches) THEN {<<>>}
  ELSE {<<a>> \o rest : a \in Answers(opts, matches[k]),
                        rest \in AnswerSeqs(opts, matches, k + 1)}

AnswersFor(opts, token) ==
  IF token.type = "text" THEN AnswerSeqs(opts, MatchAll(token.content, 0), 1)
  ELSE {<<>>}

\* the option sets of the repository's tests, and all four resolvers
DocOptions ==
  { [localDomain |-> FALSE, link |-> FALSE, linkAttributes |-> FALSE,
     label |-> FALSE],
    [localDomain |-> FALSE, link |-> TRUE, linkAttributes |-> TRUE,
     label |-> TRUE],
    [localDomain |-> TRUE, link |-> FALSE, linkAttributes |-> FALSE,
     label |-> FALSE] }

Env(isObject, hasMentions, mentions) ==
  [isObject |-> isObject, hasMentions |-> hasMentions, mentions |-> mentions]

Environments ==
  { Env(FALSE, FALSE, <<>>), Env(TRUE, FALSE, <<>>),
    Env(TRUE, TRUE, << <<"@", "o">> >>) }

(***************************************************************************)
(* State.                                                                  *)
(***************************************************************************)
VARIABLES
  opts,           \* the PluginOptions given to md.use
  env,            \* state.env, the environment given to md.render
  env0,           \* the environment as it was given
  tokens,         \* state.tokens: the block tokens parseMention is done with
  block,          \* the inline block under traversal (or the last one):
                  \* its children as visited, the replacements of each,
                  \* and its place in state.tokens once it is done
  linkDepth,      \* plugin.ts:75
  htmlLinkDepth,  \* plugin.ts:76
  used,           \* host tokens consumed so far
  phase,          \* "parse", "render", "done"
  rpos,           \* render position <<block, child>>
  html            \* what the rules returned so far

vars ==
  <<opts, env, env0, tokens, block, linkDepth, htmlLinkDepth, used, phase,
    rpos, html>>

NoBlock ==
  [active |-> FALSE, input |-> <<>>, output |-> <<>>, ctx |-> <<>>,
   splits |-> <<>>, at |-> 0]

InitWith(options, environments) ==
  /\ opts \in options
  /\ env \in environments
  /\ env0 = env
  /\ tokens = <<>>
  /\ block = NoBlock
  /\ linkDepth = 0
  /\ htmlLinkDepth = 0
  /\ used = 0
  /\ phase = "parse"
  /\ rpos = <<1, 0>>
  /\ html = <<>>

Init == InitWith(DocOptions, Environments)

\* the links and raw anchors that are really open: a closing token with
\* nothing open closes nothing
OpenAfter(open, isOpen, isClose) ==
  IF isOpen THEN open + 1
  ELSE IF isClose /\ open > 0 THEN open - 1
  ELSE open

Context(prev, token, ld, hd) ==
  [linkDepth     |-> ld,
   htmlLinkDepth |-> hd,
   openLinks     |-> OpenAfter(prev.openLinks, token.type = "link_open",
                               token.type = "link_close"),
   openAnchors   |-> OpenAfter(prev.openAnchors,
                               token.type = "html_inline"
                                 /\ isLinkOpen(token.content),
                               token.type = "html_inline"
                                 /\ ~isLinkOpen(token.content)
                                 /\ isLinkClose(token.content)),
   balanced      |-> prev.balanced
                       /\ ~(token.type = "link_close" /\ prev.openLinks = 0)]

NoContext ==
  [linkDepth |-> 0, htmlLinkDepth |-> 0, openLinks |-> 0, openAnchors |-> 0,
   balanced |-> TRUE]

LastContext == IF block.ctx = <<>> THEN NoContext ELSE block.ctx[Len(block.ctx)]

\* plugin.ts:73-74: a block token that is not inline, or has no children
SkipBlock ==
  /\ phase = "parse"
  /\ ~block.active
  /\ used < MaxTokens
  /\ \E b \in { [type |-> "paragraph_open", children |-> NULL],
                [type |-> "inline", children |-> NULL] } :
       tokens' = Append(tokens, b)
  /\ used' = used + 1
  /\ UNCHANGED <<opts, env, env0, block, linkDepth, htmlLinkDepth, phase,
                 rpos, html>>

\* plugin.ts:75-76: the traversal of an inline block starts
BeginBlock ==
  /\ phase = "parse"
  /\ ~block.active
  /\ used < MaxTokens
  /\ block' = [NoBlock EXCEPT !.active = TRUE]
  /\ linkDepth' = DepthsAtBlockStart(linkDepth, htmlLinkDepth)[1]
  /\ htmlLinkDepth' = DepthsAtBlockStart(linkDepth, htmlLinkDepth)[2]
  /\ used' = used + 1
  /\ UNCHANGED <<opts, env, env0, tokens, phase, rpos, html>>

\* plugin.ts:77-95: the callback on one child
Visit(token, answers) ==
  LET r == ParseChild(linkDepth, htmlLinkDepth, token, opts, answers)
  IN  /\ linkDepth' = r.linkDepth
      /\ htmlLinkDepth' = r.htmlLinkDepth
      /\ block' = [block EXCEPT
                     !.input = Append(@, token),
                     !.output = Append(@, r.tokens),
                     !.splits = Append(@, r.split),
                     !.ctx = Append(@, Context(LastContext, token,
                                               r.linkDepth, r.htmlLinkDepth))]
      /\ used' = used + 1
      /\ UNCHANGED <<opts, env, env0, tokens, phase, rpos, html>>

VisitChild ==
  /\ phase = "parse"
  /\ block.active
  /\ used < MaxTokens
  /\ \E token \in ChildTokens(used + 1) :
       \E answers \in AnswersFor(opts, token) : Visit(token, answers)

\* plugin.ts:77: blockToken.children = the flattened replacements
EndBlock ==
  /\ phase = "parse"
  /\ block.active
  /\ block' = [block EXCEPT !.active = FALSE, !.at = Len(tokens) + 1]
  /\ tokens' = Append(tokens, [type |-> "inline",
                               children |-> Some(Flatten(block.output))])
  /\ UNCHANGED <<opts, env, env0, linkDepth, htmlLinkDepth, used, phase,
                 rpos, html>>

\* the children of block token b as the renderer walks them
ChildrenOf(b) ==
  IF tokens[b].children = NULL THEN <<>> ELSE Value(tokens[b].children)

\* the next render position at or after <<b, i>>, <<Len(tokens) + 1, 0>> at
\* the end
RECURSIVE Settle(_, _)
Settle(b, i) ==
  IF b > Len(tokens) THEN <<b, 0>>
  ELSE IF i < Len(ChildrenOf(b)) THEN <<b, i>>
  ELSE Settle(b + 1, 0)

\* parseMention returns (plugin.ts:97); the host goes on to render
EndParse ==
  /\ phase = "parse"
  /\ ~block.active
  /\ rpos' = Settle(1, 0)
  /\ phase' = IF Settle(1, 0)[1] > Len(tokens) THEN "done" ELSE "render"
  /\ UNCHANGED <<opts, env, env0, tokens, block, linkDepth, htmlLinkDepth,
                 used, html>>

\* plugin.ts:68 and 161-179: the renderer's rule for the next child
RenderChild ==
  /\ phase = "render"
  /\ LET children == ChildrenOf(rpos[1])
         token    == children[rpos[2] + 1]
         r        == IF token.type = "mention"
                     THEN renderMention(children, rpos[2], env)
                     ELSE [env |-> env,
                           html |-> Rendered("renderToken", <<>>, <<>>)]
         next     == Settle(rpos[1], rpos[2] + 1)
     IN  /\ env' = r.env
         /\ html' = Append(html, r.html)
         /\ rpos' = next
         /\ phase' = IF next[1] > Len(tokens) THEN "done" ELSE "render"
  /\ UNCHANGED <<opts, env0, tokens, block, linkDepth, htmlLinkDepth, used>>

Next == SkipBlock \/ BeginBlock \/ VisitChild \/ EndBlock \/ EndParse
          \/ RenderChild

Spec == Init /\ [][Next]_vars

(***************************************************************************)
(* splitTokens on one text token of any content: a document of one inline  *)
(* block with that token as its only child.                                *)
(***************************************************************************)
InitSplit ==
  InitWith(PluginOptions, {Env(TRUE, FALSE, <<>>)})

ScanText ==
  /\ phase = "parse"
  /\ block.active
  /\ block.input = <<>>
  /\ \E content \in Assembled(MaxPieces) :
       \* a nesting level other than the 0 a new Token starts with
       LET token == HostToken("text", content, 1, used + 1)
       IN  \E answers \in AnswersFor(opts, token) : Visit(token, answers)

NextSplit == (tokens = <<>> /\ BeginBlock) \/ ScanText
               \/ (block.input # <<>> /\ EndBlock) \/ EndParse \/ RenderChild

SpecSplit == InitSplit /\ [][NextSplit]_vars

(***************************************************************************)
(* Vocabulary of the properties.                                           *)
(***************************************************************************)
Visited == 1..Len(block.input)

\* the children splitTokens was called on
Scanned == {i \in Visited : block.splits[i] # NULL}

ScanOf(i) == Value(block.splits[i])

ContentOf(i) == block.input[i].content

\* what content.matchAll(MENTION_PATTERN) yields on child i
MatchesOf(i) ==
  IF block.splits[i] # NULL THEN ScanOf(i).matches
  ELSE MatchAll(ContentOf(i), 0)

MatchSpan(m) == Span(m.index, m.index + Len(m.text))

\* what becomes of a match, by the resolvers' answers
Outcome(o, m, a) ==
  IF m.group = NULL /\ (~o.localDomain \/ a.localDomain = NULL)
  THEN "unresolved"
  ELSE IF o.link /\ a.link = NULL THEN "rejected"
  ELSE "converted"

OutcomeOf(i, k) == Outcome(opts, MatchesOf(i)[k], ScanOf(i).answers[k])

\* the completed handle of a match that is not left unresolved
Completed(m, a) ==
  IF m.group = NULL THEN m.text \o <<"@">> \o Value(a.localDomain) ELSE m.text

CompletedOf(i, k) == Completed(MatchesOf(i)[k], ScanOf(i).answers[k])

\* the link target of a converted match
Target(o, m, a) ==
  IF o.link THEN Value(a.link) ELSE AcctUri(Completed(m, a))

RECURSIVE Concat(_)
Concat(strings) ==
  IF strings = <<>> THEN <<>> ELSE Head(strings) \o Concat(Tail(strings))

\* the emitted tokens of scan i that stand for match k
TokensFor(i, k) ==
  LET r == ScanOf(i).result
  IN  {j \in 1..Len(r.tokens) : r.covers[j] = MatchSpan(MatchesOf(i)[k])}

IsMention(t) == t.type = "mention"

\* the info of the mention tokens among the given tokens, in order
RECURSIVE Infos(_)
Infos(toks) ==
  IF toks = <<>> THEN <<>>
  ELSE (IF IsMention(Head(toks)) THEN <<Head(toks).info>> ELSE <<>>)
         \o Infos(Tail(toks))

\* the children of all block tokens, in document order
RECURSIVE ChildrenFrom(_)
ChildrenFrom(b) ==
  IF b > Len(tokens) THEN <<>> ELSE ChildrenOf(b) \o ChildrenFrom(b + 1)

DocumentOrder == ChildrenFrom(1)

\* the completed handles of the converted matches of scan i, from match k on
RECURSIVE ConvertedFrom(_, _)
ConvertedFrom(i, k) ==
  IF k > Len(MatchesOf(i)) THEN <<>>
  ELSE (IF OutcomeOf(i, k) = "converted" THEN <<CompletedOf(i, k)>> ELSE <<>>)
         \o ConvertedFrom(i, k + 1)

MentionsBefore == IF env0.hasMentions THEN env0.mentions ELSE <<>>

(***************************************************************************)
(* Properties of parseMention (specification Spec).                        *)
(***************************************************************************)

\* C1: a text token visited while a raw-inline anchor start tag seen earlier
\* in the block is not yet matched by an anchor end tag is not split: no
\* mention token is emitted for it, whatever raw-inline tokens (unmatched
\* anchor end tags included) came before the opening tag.
C1_NoMentionInsideOpenAnchor ==
  \A i \in Visited :
    (block.input[i].type = "text" /\ block.ctx[i].openAnchors > 0)
      => /\ \A j \in 1..Len(block.output[i]) : ~IsMention(block.output[i][j])
         /\ i \notin Scanned

\* C2: in a block whose link_open / link_close tokens are balanced, a text
\* token visited between a link_open and its link_close, at any depth, is
\* emitted as that same token and nothing else, whatever the raw-anchor
\* counter reads.
C2_TextInsideLinkPassedThrough ==
  \A i \in Visited :
    (block.input[i].type = "text" /\ block.ctx[i].balanced
       /\ block.ctx[i].openLinks >= 1)
      => block.output[i] = <<block.input[i]>>

\* C2 witness: a text token holding a handle, two links deep, with the
\* raw-anchor counter not positive, passed through.
C2_Witness ==
  \E i \in Visited :
    /\ block.input[i].type = "text"
    /\ MatchesOf(i) # <<>>
    /\ MatchesOf(i)[1].group # NULL
    /\ block.ctx[i].balanced
    /\ block.ctx[i].openLinks = 2
    /\ block.ctx[i].htmlLinkDepth <= 0
    /\ block.output[i] = <<block.input[i]>>

\* C8: the traversal of every inline block starts with both counters at
\* zero, and neither counter is ever negative.
C8_CountersZeroAtStartNeverNegative ==
  /\ (block.active /\ block.input = <<>>)
       => (linkDepth = 0 /\ htmlLinkDepth = 0)
  /\ linkDepth >= 0
  /\ htmlLinkDepth >= 0

\* the offset of child i's replacements in the new children
RECURSIVE OffsetOf(_)
OffsetOf(i) == IF i = 1 THEN 0 ELSE OffsetOf(i - 1) + Len(block.output[i - 1])

\* the link context of child i, as the counters read it
InLinkContext(i) ==
  block.ctx[i].linkDepth > 0 \/ block.ctx[i].htmlLinkDepth > 0

IsHostToken(t) == t.id # 0

KeptAsIs(t) ==
  \E i \in Visited :
    block.input[i] = t /\ (t.type # "text" \/ InLinkContext(i))

C4_MentionsInDocumentOrder ==
  (env.isObject /\ phase \in {"render", "done"}) =>
    LET rendered == SubSeq(DocumentOrder, 1, Len(html))
    IN  /\ env.mentions = MentionsBefore \o Infos(rendered)
        /\ env.hasMentions <=> (env0.hasMentions \/ Infos(rendered) # <<>>)
        /\ phase = "done" => rendered = DocumentOrder

\* C4 witness: the pass is over; the environment had a list with an entry;
\* two blocks hold a mention token each, of the same handle.
C4_Witness ==
  /\ phase = "done"
  /\ env0.hasMentions
  /\ env0.mentions # <<>>
  /\ Len(tokens) = 2
  /\ \A b \in 1..2 : Infos(ChildrenOf(b)) # <<>>
  /\ Infos(ChildrenOf(1)) = Infos(ChildrenOf(2))
  /\ Len(env.mentions) = 3

(***************************************************************************)
(* Properties of splitTokens (specification SpecSplit: one text token of   *)
(* any assembled content, every combination of configured resolvers and    *)
(* of their answers, an environment without a mentions list).              *)
(***************************************************************************)
Unresolved(i) == {k \in 1..Len(MatchesOf(i)) : OutcomeOf(i, k) = "unresolved"}
Rejected(i) == {k \in 1..Len(MatchesOf(i)) : OutcomeOf(i, k) = "rejected"}
Converted(i) == {k \in 1..Len(MatchesOf(i)) : OutcomeOf(i, k) = "converted"}

\* the source text emitted token j of scan i stands for: a text token's own
\* content, the matched text a mention token replaced
SourceOf(i, j) ==
  LET r == ScanOf(i).result
  IN  IF r.tokens[j].type = "text" THEN r.tokens[j].content
      ELSE Substring(ContentOf(i), r.covers[j].from, r.covers[j].to)

\* C3: for every scanned text token and all answers of the resolvers, the
\* source texts of the emitted tokens, concatenated in order, are the
\* token's content; a mention token stands for exactly one match.
C3_SplitIsNonDestructive ==
  \A i \in Scanned :
    LET r == ScanOf(i).result
    IN  /\ block.output[i] = r.tokens
        /\ \A j \in 1..Len(r.tokens) :
             IsMention(r.tokens[j])
               => \E k \in 1..Len(MatchesOf(i)) :
                    r.covers[j] = MatchSpan(MatchesOf(i)[k])
        /\ Concat([j \in 1..Len(r.tokens) |-> SourceOf(i, j)]) = ContentOf(i)

\* C3 witness: a scanned token with a bare handle left unresolved, a
\* rejected handle, and several emitted tokens.
C3_Witness ==
  \E i \in Scanned :
    /\ Unresolved(i) # {}
    /\ Rejected(i) # {}
    /\ Len(ScanOf(i).result.tokens) >= 2

\* C5: a match without a domain for which no localDomain resolver is
\* configured, or the resolver yields nothing, gets no mention token and no
\* invocation of link, linkAttributes or label; its text stays inside a
\* text token; after the render pass env.mentions holds the handles of the
\* converted matches only.  When the resolver yields a domain, the handle
\* handed on is bareHandle + "@" + domain.
C5_UnresolvedBareHandle ==
  \A i \in Scanned :
    \A k \in 1..Len(MatchesOf(i)) :
      LET m == MatchesOf(i)[k]
          a == ScanOf(i).answers[k]
          r == ScanOf(i).result
          full == m.text \o <<"@">> \o Value(a.localDomain)
      IN  m.group = NULL =>
            IF ~opts.localDomain \/ a.localDomain = NULL
            THEN /\ \A j \in 1..Len(r.tokens) :
                      IsMention(r.tokens[j])
                        => (r.covers[j].to <= m.index
                              \/ r.covers[j].from >= MatchSpan(m).to)
                 /\ \A n \in 1..Len(r.calls) :
                      r.calls[n].match = k => r.calls[n].fn = "localDomain"
                 /\ \E j \in 1..Len(r.tokens) :
                      /\ r.tokens[j].type = "text"
                      /\ r.covers[j].from <= m.index
                      /\ MatchSpan(m).to <= r.covers[j].to
                      /\ Substring(r.tokens[j].content,
                                   m.index - r.covers[j].from,
                                   MatchSpan(m).to - r.covers[j].from) = m.text
                 /\ phase = "done" => env.mentions = ConvertedFrom(i, 1)
            ELSE /\ opts.link
                      => \E n \in 1..Len(r.calls) :
                           r.calls[n] = Call("link", full, k)
                 /\ k \in Converted(i)
                      => \E j \in TokensFor(i, k) :
                           IsMention(r.tokens[j]) /\ r.tokens[j].info = full

\* C5 witness: after the render pass, a scanned token with a bare handle the
\* configured resolver gave no domain for and a bare handle it completed,
\* which was converted and rendered.
C5_Witness ==
  /\ phase = "done"
  /\ opts.localDomain
  /\ env.mentions # <<>>
  /\ \E i \in Scanned :
       /\ \E k \in Unresolved(i) : TRUE
       /\ \E k \in Converted(i) : MatchesOf(i)[k].group = NULL

\* C6: a match the configured link resolver yields nothing for gets one
\* text token holding the matched text as written (without a domain that
\* localDomain added) and no mention token, and adds nothing to
\* env.mentions; with no link resolver configured a completed handle is
\* converted, with the target acct:<completed handle>.
C6_RejectedHandle ==
  \A i \in Scanned :
    LET r == ScanOf(i).result
    IN  /\ \A k \in Rejected(i) :
             \E j \in 1..Len(r.tokens) :
               /\ TokensFor(i, k) = {j}
               /\ r.tokens[j] = TextToken(MatchesOf(i)[k].text,
                                          block.input[i].level)
        /\ phase = "done" => Len(env.mentions) = Cardinality(Converted(i))
        /\ ~opts.link =>
             \A k \in 1..Len(MatchesOf(i)) :
               k \notin Unresolved(i) =>
                 \E j \in TokensFor(i, k) :
                   /\ IsMention(r.tokens[j])
                   /\ \E n \in 1..Len(r.tokens[j].attrs) :
                        r.tokens[j].attrs[n]
                          = <<"href", AcctUri(CompletedOf(i, k))>>

\* C6 witness: after the render pass, a scanned token with a bare handle
\* that localDomain completed and link rejected, and a converted handle.
C6_Witness ==
  /\ phase = "done"
  /\ \E i \in Scanned :
       /\ \E k \in Rejected(i) : MatchesOf(i)[k].group = NULL
       /\ Converted(i) # {}

HasKey(attrs, key) == \E n \in 1..Len(attrs) : attrs[n][1] = key

\* C7 as claimed: the attribute list of every mention token is the
\* caller-provided entries in their order followed by href as the last
\* entry, href's value is the resolved link target, and info is the
\* completed handle - for every mapping linkAttributes returns, one that
\* already has an href key included.
C7_HrefAlwaysLast ==
  \A i \in Scanned :
    \A k \in Converted(i) :
      LET r == ScanOf(i).result
          m == MatchesOf(i)[k]
          a == ScanOf(i).answers[k]
      IN  \E j \in 1..Len(r.tokens) :
            /\ TokensFor(i, k) = {j}
            /\ IsMention(r.tokens[j])
            /\ r.tokens[j].info = Completed(m, a)
            /\ r.tokens[j].attrs
                 = a.linkAttributes \o << <<"href", Target(opts, m, a)>> >>

\* C7 amended: when the mapping has no href key the attribute list is the
\* caller-provided entries in their order followed by href; when it has
\* one, the list is the caller-provided entries with the value of href
\* replaced, href keeping its place.  In both cases href's value is the
\* resolved link target and info is the completed handle.
C7_HrefLastOrInPlace ==
  \A i \in Scanned :
    \A k \in Converted(i) :
      LET r == ScanOf(i).result
          m == MatchesOf(i)[k]
          a == ScanOf(i).answers[k]
          given == a.linkAttributes
          href == <<"href", Target(opts, m, a)>>
      IN  \E j \in 1..Len(r.tokens) :
            /\ TokensFor(i, k) = {j}
            /\ IsMention(r.tokens[j])
            /\ r.tokens[j].info = Completed(m, a)
            /\ IF HasKey(given, "href")
               THEN /\ Len(r.tokens[j].attrs) = Len(given)
                    /\ \A n \in 1..Len(given) :
                         r.tokens[j].attrs[n]
                           = IF given[n][1] = "href" THEN href ELSE given[n]
               ELSE r.tokens[j].attrs = given \o <<href>>

\* C7 witness: a mention token for a bare handle, made with a link target
\* from the link resolver and a mapping that has href as its first of two
\* entries.
C7_Witness ==
  \E i \in Scanned :
    \E k \in Converted(i) :
      /\ opts.link
      /\ MatchesOf(i)[k].group = NULL
      /\ Len(ScanOf(i).answers[k].linkAttributes) = 2
      /\ ScanOf(i).answers[k].linkAttributes[1][1] = "href"
      /\ \E j \in TokensFor(i, k) : IsMention(ScanOf(i).result.tokens[j])

\* the matches a token is pushed for
Acted(i) == Converted(i) \cup Rejected(i)

\* The emitted tokens of scan i tile the content: each stands for a
\* non-empty span that starts where the one before ends, carries the
\* original nesting level, and is either the one token of a converted or
\* rejected match, or a text token holding all the text up to the next such
\* match (or the end of the content).
C10_TextAround(i) ==
  LET r     == ScanOf(i).result
      c     == ContentOf(i)
      n     == Len(r.tokens)
      spans == {MatchSpan(MatchesOf(i)[k]) : k \in Acted(i)}
  IN  /\ n = 0 => (c = <<>> \/ spans # {})
      /\ \A k \in Acted(i) : Cardinality(TokensFor(i, k)) = 1
      /\ \A j \in 1..n :
           LET span == r.covers[j]
           IN  /\ span.from < span.to
               /\ span.from = IF j = 1 THEN 0 ELSE r.covers[j - 1].to
               /\ j = n => span.to = Len(c)
               /\ r.tokens[j].level = block.input[i].level
               /\ \/ span \in spans
                  \/ /\ r.tokens[j] = TextToken(Substring(c, span.from, span.to),
                                                block.input[i].level)
                     /\ \A m \in spans : m.to <= span.from \/ m.from >= span.to
                     /\ \/ span.to = Len(c)
                        \/ \E m \in spans : m.from = span.to

\* C10 as claimed: a scanned token with no convertible match (no match, or
\* only bare handles left unresolved), one with empty content included, is
\* returned as exactly one text token with the original content and level;
\* and the text before, between and after converted matches is emitted as
\* separate text tokens, an empty leftover omitted.
C10_OneTokenEvenIfEmpty ==
  \A i \in Scanned :
    /\ Acted(i) = {}
         => ScanOf(i).result.tokens
              = <<TextToken(ContentOf(i), block.input[i].level)>>
    /\ C10_TextAround(i)

\* C10 amended: as claimed for a token whose content is not empty; a token
\* with empty content is returned as the empty sequence.
C10_OneTokenUnlessEmpty ==
  \A i \in Scanned :
    /\ (Acted(i) = {} /\ ContentOf(i) # <<>>)
         => ScanOf(i).result.tokens
              = <<TextToken(ContentOf(i), block.input[i].level)>>
    /\ ContentOf(i) = <<>> => ScanOf(i).result.tokens = <<>>
    /\ C10_TextAround(i)

\* C10 witness: a scanned token with two converted matches and text between
\* them and none after the second: a mention, a text and a mention token.
C10_Witness ==
  \E i \in Scanned :
    LET r == ScanOf(i).result
    IN  /\ Cardinality(Converted(i)) = 2
        /\ Len(r.tokens) = 3
        /\ IsMention(r.tokens[1])
        /\ r.tokens[2].type = "text"
        /\ IsMention(r.tokens[3])
        /\ r.covers[3].to = Len(ContentOf(i))

====
